---- MODULE Spec2Model ----
(***************************************************************************)
(* Model of solver.py, the entropy based Wordle solver.                    *)
(*                                                                         *)
(* A Python string is modelled as a sequence of one-character strings:     *)
(* "aab" is <<"a","a","b">>.  A feedback string is a sequence over         *)
(* "g" (green), "y" (yellow), "b" (black).                                 *)
(***************************************************************************)
EXTENDS Integers, Sequences, FiniteSets, TLC

VARIABLES
  \* ---- one session (play_wordle or interactive_manual_mode)
  VOCABULARY_BY_LENGTH, \* module global: length -> list of words
  mode,          \* "none", "auto" (play_wordle), "manual" (interactive_manual_mode)
  pc,            \* position of the session's control
  length,        \* parameter length
  supplied,      \* parameter target as passed by the caller
  target,        \* local target after line 122
  full_vocab,    \* local full_vocab
  candidates,    \* local candidates
  turns,         \* play_wordle's counter
  turn,          \* interactive_manual_mode's counter
  shown,         \* the number printed by the last "Turn {turn}" prompt
  reported,      \* the turn count printed by the success message
  guess,         \* local guess
  fb,            \* local fb (in the manual loop: of the current iteration)
  suggestions,   \* local suggestions
  outcome,       \* "running", "return" (a value), "return_none", or the exception raised
  ret,           \* the value returned when outcome = "return"
  msg,           \* the diagnostic printed by the last step ("" if none)
  accepted,      \* history: accepted (guess, feedback) pairs of the manual loop
  history,       \* history: the (guess, feedback) pairs the candidates were filtered by
  guessed,       \* history: the guesses play_wordle has made, in order
  \* ---- one call of a pure function
  fnOp, fnGuess, fnTarget, fnCands, fnPool, fnTopn, fnRes

sessVars == << VOCABULARY_BY_LENGTH, mode, pc, length, supplied, target, full_vocab,
               candidates, turns, turn, shown, reported, guess, fb, suggestions, outcome, ret,
               msg, accepted, history, guessed >>
fnVars == << fnOp, fnGuess, fnTarget, fnCands, fnPool, fnTopn, fnRes >>
vars == << sessVars, fnVars >>

\* ---------------------------------------------------------------- constants
MIN_LEN == 3
MAX_LEN == 15

\* ------------------------------------------------------------------- bounds
\* Largest vocabulary list of one length.
MaxVocab == 3
\* Largest candidate list / guess pool handed to the pure functions.
MaxCand == 3
MaxPool == 3
\* Cap on the turn counter of the human-driven loop (it has no bound of its own).
MaxTurn == 2

Letters == {"a", "b", "c"}
\* Every word of length MIN_LEN over Letters.
AllWords == [1..MIN_LEN -> Letters]
\* The words the vocabulary provider can supply in the model.
DictSeq ==
  << <<"a","a","b">>, <<"a","b","c">>, <<"a","a","a">>, <<"b","b","b">>,
     <<"c","c","c">> >>
Dict == { DictSeq[i] : i \in 1..Len(DictSeq) }

\* The words of the worked example of feedback.
ExampleWords ==
  { <<"a","r","i","s","e">>, <<"r","a","i","s","e">> }

\* Python's None.
None == <<"None">>
\* Python truthiness of an optional string: None and "" are falsy.
Truthy(s) == s # None /\ s # <<>>

Min(a, b) == IF a <= b THEN a ELSE b
SetMin(S) == CHOOSE x \in S : \A y \in S : x <= y

RECURSIVE Pow(_, _)
Pow(b, e) == IF e = 0 THEN 1 ELSE b * Pow(b, e - 1)

\* x in list
InList(x, list) == \E i \in 1..Len(list) : list[i] = x

\* Lists of at most n elements of S, and those without repetition.
ListsUpTo(S, n) == UNION { [1..k -> S] : k \in 0..n }
DistinctListsUpTo(S, n) ==
  { l \in ListsUpTo(S, n) : \A i, j \in 1..Len(l) : i # j => l[i] # l[j] }
\* The sublists of DictSeq with at most n elements, in DictSeq's order.
SubListsUpTo(n) ==
  { SelectSeq(DictSeq, LAMBDA w : w \in S) : S \in { T \in SUBSET Dict : Cardinality(T) <= n } }

\* ------------------------------------------------------------ feedback()
\* First loop: exact matches are marked 'g' and their target letter is used.
\* A first loop that marks 'g' without consuming the target position.
FirstPassNoUse(g, t) ==
  [ fb   |-> [i \in 1..Len(g) |-> IF g[i] = t[i] THEN "g" ELSE "b"],
    used |-> [j \in 1..Len(t) |-> FALSE] ]

FirstPass(g, t) ==
  [ fb   |-> [i \in 1..Len(g) |-> IF g[i] = t[i] THEN "g" ELSE "b"],
    used |-> [j \in 1..Len(t) |-> j <= Len(g) /\ g[j] = t[j]] ]

\* A second-loop body that marks 'y' without consuming the target letter.
SecondPassStepNoConsume(g, t, st, i) ==
  IF st.fb[i] = "g" THEN st
  ELSE LET J == { j \in 1..Len(t) : ~st.used[j] /\ g[i] = t[j] }
       IN  IF J = {} THEN st
           ELSE [ fb |-> [st.fb EXCEPT ![i] = "y"], used |-> st.used ]

\* A second-loop body that marks a letter found elsewhere 'g'.
SecondPassStepMarkCorrect(g, t, st, i) ==
  IF st.fb[i] = "g" THEN st
  ELSE LET J == { j \in 1..Len(t) : ~st.used[j] /\ g[i] = t[j] }
       IN  IF J = {} THEN st
           ELSE [ fb   |-> [st.fb EXCEPT ![i] = "g"],
                  used |-> [st.used EXCEPT ![SetMin(J)] = TRUE] ]

\* Body of the second loop for position i: skip a 'g', otherwise take the
\* first unused target position holding guess[i], mark 'y' and use it.
SecondPassStep(g, t, st, i) ==
  IF st.fb[i] = "g" THEN st
  ELSE LET J == { j \in 1..Len(t) : ~st.used[j] /\ g[i] = t[j] }
       IN  IF J = {} THEN st
           ELSE [ fb   |-> [st.fb EXCEPT ![i] = "y"],
                  used |-> [st.used EXCEPT ![SetMin(J)] = TRUE] ]

RECURSIVE SecondPass(_, _, _, _)
SecondPass(g, t, st, i) ==
  IF i > Len(g) THEN st
  ELSE SecondPass(g, t, SecondPassStep(g, t, st, i), i + 1)

feedback(g, t) == SecondPass(g, t, FirstPass(g, t), 1).fb

\* 'g' * length
AllGreen(len) == [i \in 1..len |-> "g"]

\* ---------------------------------------------------- filter_candidates()
\* A filter that scores the candidate against the guess instead.
filter_candidates_swapped(cands, g, pat) ==
  SelectSeq(cands, LAMBDA word : feedback(word, g) = pat)

filter_candidates(cands, g, pat) ==
  SelectSeq(cands, LAMBDA word : feedback(g, word) = pat)

\* ---------------------------------------------------- calculate_entropy()
\* A counting step that overwrites instead of incrementing.
CountPatternOverwrite(counts, f) ==
  [p \in DOMAIN counts \cup {f} |-> IF p = f THEN 1 ELSE counts[p]]

\* pattern_counts[f] = pattern_counts.get(f, 0) + 1
CountPattern(counts, f) ==
  [p \in DOMAIN counts \cup {f} |->
     IF p = f THEN (IF f \in DOMAIN counts THEN counts[f] ELSE 0) + 1
     ELSE counts[p]]

\* The dictionary built by the first loop over cands[1..n].
RECURSIVE pattern_counts(_, _, _)
pattern_counts(g, cands, n) ==
  IF n = 0 THEN [p \in {} |-> 0]
  ELSE CountPattern(pattern_counts(g, cands, n - 1),
                    feedback(g, cands[n]))

\* Product of count^count over the patterns in S.
RECURSIVE ProdPow(_, _)
ProdPow(counts, S) ==
  IF S = {} THEN 1
  ELSE LET p == CHOOSE q \in S : TRUE
       IN  Pow(counts[p], counts[p]) * ProdPow(counts, S \ {p})

\* The entropy  E = - sum (c/total) * log2(c/total)  is kept exactly, as the
\* pair (num, den) with  2^(total * E) = num / den,  num = total^total and
\* den = product of c^c over the pattern classes.  E >= 0 iff num >= den,
\* E = 0 iff num = den, and over one candidate list a larger E is a smaller
\* den.  For totals up to 5 the floating point sum of the code takes the same
\* value for every order of the classes and is ordered as the exact value.
calculate_entropy(g, cands) ==
  LET total  == Len(cands)
      counts == pattern_counts(g, cands, total)
  IN  [ total |-> total,
        num   |-> Pow(total, total),
        den   |-> ProdPow(counts, DOMAIN counts) ]

\* Comparisons of two entropies taken over the same candidate list.
EntropyGreater(e1, e2) == e1.den < e2.den
EntropyEqual(e1, e2) == e1.den = e2.den
EntropyIsZero(e) == e.num = e.den
EntropyNonNegative(e) == e.num >= e.den

\* --------------------------------------------------------- rank_guesses()
\* Insertion that puts x in front of the entries of equal key.
InsertBeforeEqual(sorted, x) ==
  LET K == { k \in 1..Len(sorted) : ~EntropyGreater(sorted[k][2], x[2]) }
      pos == IF K = {} THEN Len(sorted) + 1 ELSE SetMin(K)
  IN  SubSeq(sorted, 1, pos - 1) \o <<x>> \o SubSeq(sorted, pos, Len(sorted))

\* list.sort(key=lambda x: -x[1]) is stable: x goes behind every entry whose
\* key -entropy is not larger than its own.
InsertByKey(sorted, x) ==
  LET K == { k \in 1..Len(sorted) : EntropyGreater(x[2], sorted[k][2]) }
      pos == IF K = {} THEN Len(sorted) + 1 ELSE SetMin(K)
  IN  SubSeq(sorted, 1, pos - 1) \o <<x>> \o SubSeq(sorted, pos, Len(sorted))

RECURSIVE SortByNegEntropy(_, _)
SortByNegEntropy(entropies, n) ==
  IF n = 0 THEN <<>>
  ELSE InsertByKey(SortByNegEntropy(entropies, n - 1), entropies[n])

\* A ranking that leaves the pool in its own order.
rank_guesses_unsorted(cands, pool, topn) ==
  LET entropies == [i \in 1..Len(pool) |->
                      <<pool[i], calculate_entropy(pool[i], cands)>>]
  IN  SubSeq(entropies, 1, Min(topn, Len(entropies)))

\* The first parameter is the list the entropy is taken over, the second the
\* pool of words that are ranked.
rank_guesses(cands, pool, topn) ==
  LET entropies == [i \in 1..Len(pool) |->
                      <<pool[i], calculate_entropy(pool[i], cands)>>]
      sorted == SortByNegEntropy(entropies, Len(entropies))
  IN  SubSeq(sorted, 1, Min(topn, Len(sorted)))

\* ---------------------------------------------------------------- inputs
LengthInputs == { MIN_LEN - 1, MIN_LEN, MIN_LEN + 1, MAX_LEN + 1 }
\* --target: absent (None), the empty string, a word, or a string of another length.
TargetInputs == { None, <<>>, <<"a","b">>, <<"a","b","c","a">> } \cup Dict
\* What the user may type at the guess prompt: a word, a string of another
\* length, a string with a blank inside, a word in capitals between blanks.
GuessInputs ==
  Dict \cup { <<"a","b">>, <<"a"," ","b">>, <<" ","A","a","B"," ">> }
\* What the user may type at the feedback prompt: the feedback some word of
\* Dict gives another, a pattern none gives, strings of another length or
\* with a foreign character, a pattern in capitals followed by a blank.
FeedbackInputs ==
  { feedback(g, w) : g \in Dict, w \in Dict }
    \cup { <<"y","y","y">>, <<"g","y">>, <<"g","x","b">>, <<"G","Y","B"," ">> }

\* str.lower() on the characters of the model.
LowerChar(c) ==
  CASE c = "A" -> "a" [] c = "B" -> "b" [] c = "C" -> "c"
    [] c = "G" -> "g" [] c = "Y" -> "y" [] OTHER -> c
Lower(s) == [i \in 1..Len(s) |-> LowerChar(s[i])]
\* str.strip(): drop leading and trailing blanks.
Strip(s) ==
  LET K == { i \in 1..Len(s) : s[i] # " " }
  IN  IF K = {} THEN <<>>
      ELSE SubSeq(s, SetMin(K), CHOOSE x \in K : \A y \in K : y <= x)

\* ----------------------------------------------------------- play_wordle()
\* Lines 111-123: validation, copy of the vocabulary, choice of the target.
play_wordle(len, tgt) ==
  /\ pc = "idle"
  /\ mode' = "auto" /\ length' = len /\ supplied' = tgt
  /\ IF len < MIN_LEN \/ len > MAX_LEN
     THEN /\ outcome' = "ValueError" /\ pc' = "done"
          /\ UNCHANGED << target, full_vocab, candidates, ret, msg >>
     ELSE LET fv == VOCABULARY_BY_LENGTH[len]
          IN  /\ full_vocab' = fv /\ candidates' = fv
              /\ IF Truthy(tgt) /\ (Len(tgt) # len \/ ~InList(tgt, fv))
                 THEN /\ msg' = "invalid_target" /\ ret' = -1
                      /\ outcome' = "return" /\ pc' = "done"
                      /\ target' = tgt
                 ELSE IF Truthy(tgt)
                 THEN /\ target' = tgt /\ pc' = "guessing"
                      /\ UNCHANGED << outcome, ret, msg >>
                 ELSE IF fv = <<>>
                 THEN \* random.choice of an empty list
                      /\ outcome' = "IndexError" /\ pc' = "done"
                      /\ UNCHANGED << target, ret, msg >>
                 ELSE /\ \E k \in 1..Len(fv) : target' = fv[k]
                      /\ pc' = "guessing"
                      /\ UNCHANGED << outcome, ret, msg >>
  /\ UNCHANGED << VOCABULARY_BY_LENGTH, turns, turn, shown, reported, guess, fb,
                  suggestions, accepted, history, guessed, fnVars >>

\* Lines 126-127: count the turn and take the top ranked candidate.
play_wordle_guess ==
  /\ pc = "guessing"
  /\ turns' = turns + 1
  /\ LET r == rank_guesses(candidates, candidates, 1)
     IN  IF r = <<>>
         THEN /\ outcome' = "IndexError" /\ pc' = "done"
              /\ UNCHANGED << guess, guessed >>
         ELSE /\ guess' = r[1][1] /\ pc' = "filtering" /\ UNCHANGED outcome
              /\ guessed' = Append(guessed, r[1][1])
  /\ msg' = ""
  /\ UNCHANGED << VOCABULARY_BY_LENGTH, mode, length, supplied, target, full_vocab,
                  candidates, turn, shown, reported, fb, suggestions, ret, accepted,
                  history, fnVars >>

\* A turn that forgets to prune: the candidates stay as they are.
play_wordle_turn_no_prune(cands, g, pat, len) ==
  IF pat = AllGreen(len) THEN [msg |-> "solved", cands |-> cands]
  ELSE [msg |-> "", cands |-> cands]

\* A turn whose filter lets the guessed word stay among the candidates.
play_wordle_turn_keep_guess(cands, g, pat, len) ==
  IF pat = AllGreen(len) THEN [msg |-> "solved", cands |-> cands]
  ELSE LET c == SelectSeq(cands, LAMBDA word : word = g \/ feedback(g, word) = pat)
       IN  IF c = <<>> THEN [msg |-> "no_candidates", cands |-> c]
           ELSE [msg |-> "", cands |-> c]

\* A turn whose filter scores each candidate against the guess.
play_wordle_turn_swapped(cands, g, pat, len) ==
  IF pat = AllGreen(len) THEN [msg |-> "solved", cands |-> cands]
  ELSE LET c == filter_candidates_swapped(cands, g, pat)
       IN  IF c = <<>> THEN [msg |-> "no_candidates", cands |-> c]
           ELSE [msg |-> "", cands |-> c]

\* Lines 131-137: the verdict of one turn and the candidates it leaves.
play_wordle_turn(cands, g, pat, len) ==
  IF pat = AllGreen(len) THEN [msg |-> "solved", cands |-> cands]
  ELSE LET c == filter_candidates(cands, g, pat)
       IN  IF c = <<>> THEN [msg |-> "no_candidates", cands |-> c]
           ELSE [msg |-> "", cands |-> c]

\* A turn whose candidates are the shared vocabulary list itself, filtered in
\* place: what is removed from the candidates is removed from the vocabulary.
play_wordle_feedback_in_place ==
  /\ pc = "filtering"
  /\ LET f == feedback(guess, target)
         v == play_wordle_turn(candidates, guess, f, length)
     IN  /\ fb' = f
         /\ msg' = v.msg
         /\ candidates' = v.cands
         /\ full_vocab' = v.cands
         /\ VOCABULARY_BY_LENGTH' = [VOCABULARY_BY_LENGTH EXCEPT ![length] = v.cands]
         /\ history' = IF v.msg = "solved" THEN history
                       ELSE history \cup { << guess, f >> }
         /\ IF v.msg = "solved"
            THEN /\ reported' = turns /\ ret' = turns
                 /\ outcome' = "return" /\ pc' = "done"
            ELSE IF v.msg = "no_candidates"
            THEN /\ ret' = -1 /\ outcome' = "return" /\ pc' = "done"
                 /\ UNCHANGED reported
            ELSE /\ pc' = "guessing"
                 /\ UNCHANGED << ret, outcome, reported >>
  /\ UNCHANGED << mode, length, supplied, target, turns, turn, shown, guess,
                  suggestions, accepted, guessed, fnVars >>

\* Lines 128-137: feedback against the target, success, filter, exhaustion.
play_wordle_feedback ==
  /\ pc = "filtering"
  /\ LET f == feedback(guess, target)
         v == play_wordle_turn(candidates, guess, f, length)
     IN  /\ fb' = f
         /\ msg' = v.msg
         /\ candidates' = v.cands
         /\ history' = IF v.msg = "solved" THEN history
                       ELSE history \cup { << guess, f >> }
         /\ IF v.msg = "solved"
            THEN /\ reported' = turns /\ ret' = turns
                 /\ outcome' = "return" /\ pc' = "done"
            ELSE IF v.msg = "no_candidates"
            THEN /\ ret' = -1 /\ outcome' = "return" /\ pc' = "done"
                 /\ UNCHANGED reported
            ELSE /\ pc' = "guessing"
                 /\ UNCHANGED << ret, outcome, reported >>
  /\ UNCHANGED << VOCABULARY_BY_LENGTH, mode, length, supplied, target, full_vocab,
                  turns, turn, shown, guess, suggestions, accepted, guessed, fnVars >>

\* ----------------------------------------------- interactive_manual_mode()
\* Lines 143-150: dict.get and the emptiness test, then the copy.
interactive_manual_mode(len) ==
  /\ pc = "idle"
  /\ mode' = "manual" /\ length' = len
  /\ LET fv == IF len \in DOMAIN VOCABULARY_BY_LENGTH
               THEN VOCABULARY_BY_LENGTH[len] ELSE None
     IN  /\ full_vocab' = fv
         /\ IF fv = None \/ fv = <<>>
            THEN /\ msg' = "no_vocabulary" /\ outcome' = "return_none"
                 /\ pc' = "done" /\ UNCHANGED candidates
            ELSE /\ candidates' = fv /\ pc' = "prompt_guess"
                 /\ UNCHANGED << msg, outcome >>
  /\ UNCHANGED << VOCABULARY_BY_LENGTH, supplied, target, turns, turn, shown, reported,
                  guess, fb, suggestions, ret, accepted, history, guessed, fnVars >>

\* A rejected input that leaves the counter where the loop top put it.
TurnAfterRejectKept(t) == t

\* turn -= 1 before continue
TurnAfterReject(t) == t - 1

\* Lines 153-159: the loop top counts and prints the turn, reads the guess.
manual_guess_input(raw) ==
  /\ pc = "prompt_guess" /\ turn < MaxTurn
  /\ shown' = turn + 1
  \* The fb of the iteration before is dead: line 161 assigns it before any
  \* line reads it.  The model clears it when the iteration starts.
  /\ fb' = <<>>
  /\ LET gs == Lower(Strip(raw))
     IN  /\ guess' = gs
         /\ IF Len(gs) # length \/ ~InList(gs, full_vocab)
            THEN /\ msg' = "invalid_word" /\ turn' = TurnAfterReject(turn + 1)
                 /\ pc' = "prompt_guess"
            ELSE /\ msg' = "" /\ turn' = turn + 1 /\ pc' = "prompt_fb"
  /\ UNCHANGED << VOCABULARY_BY_LENGTH, mode, length, supplied, target, full_vocab,
                  candidates, turns, reported, suggestions, outcome, ret,
                  accepted, history, guessed, fnVars >>

\* A turn that filters before it looks for the success pattern.
manual_turn_filter_first(cands, g, pat, len) ==
  LET c == filter_candidates(cands, g, pat)
  IN  IF c = <<>> THEN [msg |-> "no_match", cands |-> c]
      ELSE IF pat = AllGreen(len) THEN [msg |-> "success", cands |-> c]
      ELSE [msg |-> "suggestions", cands |-> c]

\* A turn that filters the whole vocabulary by the last pair only.
manual_turn_from_vocab(cands, g, pat, len) ==
  IF pat = AllGreen(len) THEN [msg |-> "success", cands |-> cands]
  ELSE LET c == filter_candidates(full_vocab, g, pat)
       IN  IF c = <<>> THEN [msg |-> "no_match", cands |-> c]
           ELSE [msg |-> "suggestions", cands |-> c]

\* Lines 167-174: the verdict of one accepted pair and the candidates it leaves.
manual_turn(cands, g, pat, len) ==
  IF pat = AllGreen(len) THEN [msg |-> "success", cands |-> cands]
  ELSE LET c == filter_candidates(cands, g, pat)
       IN  IF c = <<>> THEN [msg |-> "no_match", cands |-> c]
           ELSE [msg |-> "suggestions", cands |-> c]

\* Lines 161-180: read the feedback; success, filter, contradiction, suggestions.
manual_feedback_input(raw) ==
  /\ pc = "prompt_fb"
  /\ LET f == Lower(Strip(raw))
     IN  /\ fb' = f
         /\ IF Len(f) # length \/ \E i \in 1..Len(f) : f[i] \notin {"g", "y", "b"}
            THEN /\ msg' = "invalid_feedback" /\ turn' = TurnAfterReject(turn)
                 /\ pc' = "prompt_guess"
                 /\ UNCHANGED << candidates, suggestions, outcome, reported, accepted,
                                 history >>
            ELSE LET v == manual_turn(candidates, guess, f, length)
                 IN  /\ accepted' = accepted + 1
                     /\ history' = IF v.msg = "success" THEN history
                                   ELSE history \cup { << guess, f >> }
                     /\ UNCHANGED turn
                     /\ msg' = v.msg
                     /\ candidates' = v.cands
                     /\ IF v.msg = "success"
                        THEN /\ reported' = turn
                             /\ outcome' = "return_none" /\ pc' = "done"
                             /\ UNCHANGED suggestions
                        ELSE IF v.msg = "no_match"
                        THEN /\ outcome' = "return_none" /\ pc' = "done"
                             /\ UNCHANGED << suggestions, reported >>
                        ELSE /\ suggestions' = rank_guesses(v.cands, v.cands, 100)
                             /\ pc' = "prompt_guess"
                             /\ UNCHANGED << outcome, reported >>
  /\ UNCHANGED << VOCABULARY_BY_LENGTH, mode, length, supplied, target, full_vocab,
                  turns, shown, guess, ret, guessed, fnVars >>

\* ------------------------------------------------- calls of the pure functions
SessIdle ==
  /\ VOCABULARY_BY_LENGTH = [n \in MIN_LEN..MAX_LEN |-> <<>>]
  /\ mode = "none" /\ pc = "idle" /\ length = 0
  /\ supplied = None /\ target = None
  /\ full_vocab = <<>> /\ candidates = <<>>
  /\ turns = 0 /\ turn = 0 /\ shown = 0 /\ reported = 0
  /\ guess = <<>> /\ fb = <<>> /\ suggestions = <<>>
  /\ outcome = "running" /\ ret = 0 /\ msg = "" /\ accepted = 0
  /\ history = {} /\ guessed = <<>>

FnIdle ==
  /\ fnOp = "none" /\ fnGuess = <<>> /\ fnTarget = <<>>
  /\ fnCands = <<>> /\ fnPool = <<>> /\ fnTopn = 0 /\ fnRes = <<>>

InitFn == SessIdle /\ FnIdle

FnFeedback ==
  /\ fnOp = "none"
  /\ \E p \in (AllWords \X AllWords) \cup (ExampleWords \X ExampleWords) :
       /\ fnGuess' = p[1] /\ fnTarget' = p[2]
       /\ fnRes' = feedback(p[1], p[2])
  /\ fnOp' = "feedback"
  /\ UNCHANGED << fnCands, fnPool, fnTopn, sessVars >>

\* filter_candidates on the feedback a member of the list truthfully produces.
FnFilter ==
  /\ fnOp = "none"
  /\ \E C \in ListsUpTo(Dict, MaxCand), g \in Dict :
       \E k \in 1..Len(C) :
         /\ fnCands' = C /\ fnGuess' = g /\ fnTarget' = C[k]
         /\ fnRes' = filter_candidates(C, g, feedback(g, C[k]))
  /\ fnOp' = "filter"
  /\ UNCHANGED << fnPool, fnTopn, sessVars >>

\* filter_candidates on the pattern 'g' * len(guess), for any list and guess.
FnFilterGreen ==
  /\ fnOp = "none"
  /\ \E C \in ListsUpTo(Dict, MaxCand), g \in Dict :
       /\ fnCands' = C /\ fnGuess' = g
       /\ fnRes' = filter_candidates(C, g, AllGreen(Len(g)))
  /\ fnOp' = "filter_green"
  /\ UNCHANGED << fnTarget, fnPool, fnTopn, sessVars >>

FnEntropy ==
  /\ fnOp = "none"
  /\ \E C \in ListsUpTo(Dict, MaxCand), g \in Dict :
       /\ fnCands' = C /\ fnGuess' = g
       /\ fnRes' = calculate_entropy(g, C)
  /\ fnOp' = "entropy"
  /\ UNCHANGED << fnTarget, fnPool, fnTopn, sessVars >>

FnRank ==
  /\ fnOp = "none"
  /\ \E P \in DistinctListsUpTo(Dict, MaxPool), C \in SubListsUpTo(MaxCand),
        n \in 0..(MaxPool + 1) :
       /\ fnPool' = P /\ fnCands' = C /\ fnTopn' = n
       /\ fnRes' = rank_guesses(C, P, n)
  /\ fnOp' = "rank"
  /\ UNCHANGED << fnGuess, fnTarget, sessVars >>

NextFn == FnFeedback \/ FnFilter \/ FnFilterGreen \/ FnEntropy \/ FnRank

SpecFn == InitFn /\ [][NextFn]_vars

\* ------------------------------------------------------------ sessions
\* load_vocab(): a list of distinct words per length; in the model only the
\* words of length MIN_LEN exist.
Init ==
  /\ \E v \in DistinctListsUpTo(Dict, MaxVocab) :
       VOCABULARY_BY_LENGTH = [n \in MIN_LEN..MAX_LEN |-> IF n = MIN_LEN THEN v ELSE <<>>]
  /\ mode = "none" /\ pc = "idle" /\ length = 0
  /\ supplied = None /\ target = None
  /\ full_vocab = <<>> /\ candidates = <<>>
  /\ turns = 0 /\ turn = 0 /\ shown = 0 /\ reported = 0
  /\ guess = <<>> /\ fb = <<>> /\ suggestions = <<>>
  /\ outcome = "running" /\ ret = 0 /\ msg = "" /\ accepted = 0
  /\ history = {} /\ guessed = <<>>
  /\ FnIdle

Next ==
  \/ \E len \in LengthInputs, tgt \in TargetInputs : play_wordle(len, tgt)
  \/ play_wordle_guess
  \/ play_wordle_feedback
  \/ \E len \in LengthInputs : interactive_manual_mode(len)
  \/ \E raw \in GuessInputs : manual_guess_input(raw)
  \/ \E raw \in FeedbackInputs : manual_feedback_input(raw)

Spec == Init /\ [][Next]_vars

\* A behaviour is either a session or, where no vocabulary is loaded, one call
\* of a pure function.
Session ==
  /\ fnOp = "none"
  /\ Next

FnCall ==
  /\ pc = "idle" /\ VOCABULARY_BY_LENGTH[MIN_LEN] = <<>>
  /\ NextFn

NextAll == Session \/ FnCall

SpecAll == Init /\ [][NextAll]_vars

\* ------------------------------------------------------------------ claims
\* C1: play_wordle on a non-empty vocabulary with a target that is a member of
\* it never runs out of candidates and never takes more turns than the
\* vocabulary has words; it ends solved, returning a turn count N with
\* 1 <= N <= the initial candidate count.
C1_AutoSolves ==
  (mode = "auto" /\ full_vocab # <<>> /\ InList(target, full_vocab)) =>
    /\ msg # "no_candidates"
    /\ outcome \in {"running", "return"}
    /\ turns <= Len(full_vocab)
    /\ pc = "done" => /\ msg = "solved" /\ outcome = "return"
                      /\ ret = turns /\ 1 <= ret /\ ret <= Len(full_vocab)

\* A session that needed as many turns as the vocabulary has words.
C1_Witness ==
  /\ mode = "auto" /\ pc = "done" /\ msg = "solved"
  /\ Len(full_vocab) >= 3 /\ ret = Len(full_vocab)

\* C4: in play_wordle with a valid length (and words of that length), a
\* supplied target of the wrong length or outside the vocabulary ends the
\* session at once with the invalid target failure: no turn is played and no
\* random target takes its place.
C4_InvalidTargetRejected ==
  ( /\ mode = "auto" /\ length \in MIN_LEN..MAX_LEN /\ supplied # None
    /\ VOCABULARY_BY_LENGTH[length] # <<>>
    /\ (Len(supplied) # length \/ ~InList(supplied, VOCABULARY_BY_LENGTH[length])) )
  => /\ pc = "done" /\ msg = "invalid_target"
     /\ outcome = "return" /\ ret = -1
     /\ turns = 0 /\ target = supplied

\* The failure kind of section 7 that the session's observable end stands for.
SessionOutcome ==
  CASE outcome = "ValueError" -> "InvalidLength"
    [] outcome = "IndexError" -> "Crash"
    [] msg = "no_vocabulary" -> "EmptyVocabulary"
    [] msg = "invalid_target" -> "InvalidTarget"
    [] msg \in {"no_candidates", "no_match"} -> "NoCandidatesRemaining"
    [] msg \in {"solved", "success"} -> "Solved"
    [] OTHER -> "Running"

\* C5: a session that has ended has handed its caller a return value, never an
\* exception, and play_wordle's value is positive exactly when it ended solved.
C5_ErrorsAreReturnValues ==
  pc = "done" =>
    /\ outcome = "return"
    /\ mode = "auto" => (ret > 0 <=> SessionOutcome = "Solved")

GuessRejected(gs, len, vocab) == Len(gs) # len \/ ~InList(gs, vocab)
FeedbackRejected(f, len) ==
  Len(f) # len \/ \E i \in 1..Len(f) : f[i] \notin {"g", "y", "b"}

\* C6: in the manual loop every guess prompt shows 1 + the number of accepted
\* (guess, feedback) pairs, and a rejected guess or feedback leads back to the
\* guess prompt with the candidates and the count of accepted pairs untouched.
C6_RejectedInputKeepsState ==
  [][ /\ (mode = "manual" /\ pc = "prompt_guess") => shown' = 1 + accepted
      /\ ( \/ pc = "prompt_guess" /\ GuessRejected(guess', length, full_vocab)
           \/ pc = "prompt_fb" /\ FeedbackRejected(fb', length) )
         => /\ candidates' = candidates /\ suggestions' = suggestions
            /\ accepted' = accepted /\ turn' = accepted
            /\ pc' = "prompt_guess" ]_vars

\* A feedback rejected after one pair was accepted, and the prompt before it
\* showed turn 2.
C6_Witness ==
  /\ mode = "manual" /\ pc = "prompt_guess" /\ msg = "invalid_feedback"
  /\ accepted = 1 /\ shown = 2 /\ turn = 1 /\ Len(candidates) < Len(full_vocab)

\* C9: both modes reject a length outside MIN_LEN..MAX_LEN as InvalidLength and
\* an empty vocabulary as EmptyVocabulary before any turn, and enter the loop
\* only otherwise.
C9_InitRejects ==
  mode # "none" =>
    /\ length \notin MIN_LEN..MAX_LEN =>
         /\ pc = "done" /\ SessionOutcome = "InvalidLength"
         /\ turns = 0 /\ turn = 0 /\ shown = 0
    /\ (length \in MIN_LEN..MAX_LEN /\ VOCABULARY_BY_LENGTH[length] = <<>>) =>
         /\ pc = "done" /\ SessionOutcome = "EmptyVocabulary"
         /\ turns = 0 /\ turn = 0 /\ shown = 0
    /\ pc \in {"guessing", "filtering", "prompt_guess", "prompt_fb"} =>
         /\ length \in MIN_LEN..MAX_LEN
         /\ full_vocab = VOCABULARY_BY_LENGTH[length] /\ full_vocab # <<>>

\* C10: the manual loop ends only on an accepted feedback, with success when it
\* is all green (judged before any filtering, reporting the current turn) and
\* with a contradiction when the filter leaves nothing; any other accepted
\* feedback leads back to the guess prompt with the pruned, non-empty candidates.
C10_ManualEnds ==
  [][ (mode = "manual" /\ pc \in {"prompt_guess", "prompt_fb"}) =>
        LET valid == pc = "prompt_fb" /\ ~FeedbackRejected(fb', length)
            green == fb' = AllGreen(length)
            kept  == filter_candidates(candidates, guess, fb')
        IN  /\ pc' = "done" => (valid /\ (green \/ kept = <<>>))
            /\ (valid /\ green) =>
                 /\ pc' = "done" /\ msg' = "success"
                 /\ reported' = turn /\ candidates' = candidates
            /\ (valid /\ ~green /\ kept = <<>>) =>
                 /\ pc' = "done" /\ msg' = "no_match"
            /\ (valid /\ ~green /\ kept # <<>>) =>
                 /\ pc' = "prompt_guess" /\ candidates' = kept ]_vars

\* A success on the second turn with a guess the first turn had ruled out.
C10_Witness ==
  /\ mode = "manual" /\ pc = "done" /\ msg = "success" /\ reported = 2
  /\ ~InList(guess, candidates) /\ candidates # <<>>

\* The words of a list, as a set.
Range(list) == { list[i] : i \in 1..Len(list) }

\* C11: at every point of a session the candidates are exactly the vocabulary
\* words that give, against every guess filtered so far, the feedback that was
\* filtered by; and no step of a running session adds a candidate.
C11_CandidatesConsistent ==
  /\ [] ( (mode # "none" /\ full_vocab # None) =>
            Range(candidates)
              = { w \in Range(full_vocab) :
                    \A h \in history : feedback(h[1], w) = h[2] } )
  /\ [][ pc # "idle" => Range(candidates') \subseteq Range(candidates) ]_vars

\* A manual session whose candidates were pruned by two different pairs and
\* are still not empty.
C11_Witness ==
  /\ mode = "manual" /\ Cardinality(history) = 2 /\ candidates # <<>>
  /\ Len(candidates) + 2 <= Len(full_vocab)

\* C12: in play_wordle, from the moment the target is fixed, the target is among
\* the candidates whenever a turn starts or a guess awaits its feedback, so
\* the ranking is never taken over an empty list and the "No candidates left"
\* exit is never taken.
C12_TargetKept ==
  mode = "auto" =>
    /\ pc \in {"guessing", "filtering"} =>
         (candidates # <<>> /\ InList(target, candidates))
    /\ turns > 0 => outcome # "IndexError"
    /\ msg # "no_candidates"

\* A later turn starts with several candidates left, the target not the first.
C12_Witness ==
  /\ mode = "auto" /\ pc = "guessing" /\ turns >= 1
  /\ Len(candidates) >= 2 /\ target # candidates[1] /\ InList(target, candidates)

\* C13: feedback(g, t) is the two-pass reference.  Position i is 'g' iff
\* g[i] = t[i]; a position that is not 'g' and holds letter L is 'y' iff the
\* occurrences of L in t, less the 'g' positions holding L, less the earlier
\* positions holding L that are not 'g' and were marked 'y', are more than
\* zero; otherwise it is 'b'.  feedback("arise", "raise") is y, y, g, g, g.
C13_FeedbackReference ==
  fnOp = "feedback" =>
    /\ \A i \in 1..Len(fnGuess) :
         fnRes[i] =
           IF fnGuess[i] = fnTarget[i] THEN "g"
           ELSE IF Cardinality({ j \in 1..Len(fnTarget) : fnTarget[j] = fnGuess[i] })
                   - Cardinality({ j \in 1..Len(fnGuess) :
                                     fnGuess[j] = fnGuess[i] /\ fnGuess[j] = fnTarget[j] })
                   - Cardinality({ j \in 1..(i - 1) :
                                     /\ fnGuess[j] = fnGuess[i]
                                     /\ fnGuess[j] # fnTarget[j]
                                     /\ fnRes[j] = "y" })
                   > 0
                THEN "y" ELSE "b"
    /\ (fnGuess = <<"a","r","i","s","e">> /\ fnTarget = <<"r","a","i","s","e">>)
         => fnRes = <<"y","y","g","g","g">>

\* The worked example has been computed.
C13_Witness ==
  /\ fnOp = "feedback"
  /\ fnGuess = <<"a","r","i","s","e">> /\ fnTarget = <<"r","a","i","s","e">>
  /\ fnRes = <<"y","y","g","g","g">>

\* C14: in play_wordle the guess of a turn is one of the current candidates,
\* agrees with every feedback received so far, has an entropy over the
\* candidates that no candidate exceeds, and stands before every other
\* candidate of that entropy.
C14_GuessIsBest ==
  (mode = "auto" /\ pc = "filtering") =>
    /\ \A h \in history : feedback(h[1], guess) = h[2]
    /\ \E k \in 1..Len(candidates) :
         /\ candidates[k] = guess
         /\ \A j \in 1..Len(candidates) :
              ~EntropyGreater(calculate_entropy(candidates[j], candidates),
                              calculate_entropy(guess, candidates))
         /\ \A j \in 1..(k - 1) :
              EntropyGreater(calculate_entropy(guess, candidates),
                             calculate_entropy(candidates[j], candidates))

\* The guess is the second candidate: the first has a smaller entropy and a
\* later one has the same.
C14_Witness ==
  /\ mode = "auto" /\ pc = "filtering" /\ Len(candidates) >= 3
  /\ guess = candidates[2] /\ guess # candidates[1]
  /\ \E j \in 3..Len(candidates) :
       /\ candidates[j] # guess
       /\ EntropyEqual(calculate_entropy(candidates[j], candidates),
                       calculate_entropy(guess, candidates))

\* C15: a session never changes the vocabulary.  full_vocab is the list of the
\* vocabulary for the session's length and the candidates start as a copy of
\* it; ranking a guess (rank_guesses, calculate_entropy, feedback) leaves
\* the candidates as they are; the candidates change only in the step that
\* ends a turn, and then to the complete filter of the candidates by the
\* turn's guess and feedback, never to a part of it.
C15_VocabularyFrame ==
  [][ /\ VOCABULARY_BY_LENGTH' = VOCABULARY_BY_LENGTH
      /\ pc # "idle" => full_vocab' = full_vocab
      /\ (pc = "idle" /\ length' \in DOMAIN VOCABULARY_BY_LENGTH) =>
           /\ full_vocab' = VOCABULARY_BY_LENGTH[length']
           /\ candidates' = full_vocab'
      /\ pc \in {"guessing", "prompt_guess"} => candidates' = candidates
      /\ pc \in {"filtering", "prompt_fb"} =>
           /\ guess' = guess /\ target' = target
           /\ \/ candidates' = candidates
              \/ candidates'
                   = SelectSeq(candidates, LAMBDA w : feedback(guess, w) = fb')
    ]_vars

\* Two of three candidates have been filtered out of an automatic session;
\* the vocabulary still holds all three words.
C15_Witness ==
  /\ mode = "auto" /\ pc = "guessing" /\ turns >= 1
  /\ Len(candidates) = 1 /\ Len(full_vocab) = 3
  /\ VOCABULARY_BY_LENGTH[length] = full_vocab

\* C16: feedback(g, t) is all 'g' exactly when g = t.  So play_wordle reports
\* the word solved only when its last guess is the target, the turn count it
\* reports and returns is the number of guesses it made, and filtering a
\* list by a guess and the all-'g' pattern leaves exactly the entries equal
\* to the guess.
C16_AllCorrectIffEqual ==
  /\ fnOp = "feedback" =>
       (fnRes = AllGreen(Len(fnGuess)) <=> fnGuess = fnTarget)
  /\ fnOp = "filter_green" =>
       fnRes = SelectSeq(fnCands, LAMBDA w : w = fnGuess)
  /\ (mode = "auto" /\ turns >= 1 /\ pc \in {"guessing", "done"}
        /\ outcome # "IndexError") =>
       (fb = AllGreen(length) <=> guess = target)
  /\ (mode = "auto" /\ msg = "solved") =>
       /\ guess = target /\ guessed[Len(guessed)] = target
       /\ reported = turns /\ ret = turns /\ turns = Len(guessed)

\* play_wordle has solved the word with its second guess.
C16_Witness ==
  /\ mode = "auto" /\ msg = "solved" /\ ret = 2 /\ Len(guessed) = 2
  /\ guessed[1] # target /\ guessed[2] = target

\* C17: in play_wordle, the vocabulary holding no word twice, every turn that
\* is followed by another leaves fewer candidates than it found and leaves
\* the guessed word out of them; no word is guessed twice in a session.
C17_Progress ==
  /\ [] ( mode = "auto" =>
            \A i, j \in 1..Len(guessed) : i # j => guessed[i] # guessed[j] )
  /\ [][ (mode = "auto" /\ pc = "filtering" /\ pc' = "guessing") =>
            /\ Len(candidates') < Len(candidates)
            /\ ~InList(guess, candidates') ]_vars

\* A third guess has been made: each of the two turns before removed one of
\* the three words.
C17_Witness ==
  /\ mode = "auto" /\ pc = "filtering" /\ Len(guessed) = 3
  /\ Len(candidates) = 1 /\ Len(full_vocab) = 3

\* C2: the member of the candidate list that truthfully produced the feedback
\* is kept by filter_candidates.
C2_FilterSound ==
  fnOp = "filter" => InList(fnTarget, fnRes)

\* A filter call that removed something although guess and target differ.
C2_Witness ==
  /\ fnOp = "filter" /\ fnGuess # fnTarget
  /\ Len(fnRes) < Len(fnCands) /\ InList(fnTarget, fnRes)

\* C3: the feedback has one mark per letter of the guess, every mark is g, y
\* or b, and no letter is marked g or y more often than the target holds it.
C3_FeedbackShape ==
  fnOp = "feedback" =>
    /\ Len(fnRes) = Len(fnGuess)
    /\ \A i \in 1..Len(fnRes) : fnRes[i] \in {"g", "y", "b"}
    /\ \A L \in Range(fnGuess) :
         Cardinality({ i \in 1..Len(fnGuess) : fnGuess[i] = L /\ fnRes[i] \in {"g", "y"} })
           <= Cardinality({ j \in 1..Len(fnTarget) : fnTarget[j] = L })

\* A guess with a repeated letter of which the target holds fewer: one
\* occurrence is marked, a later one is not.
C3_Witness ==
  /\ fnOp = "feedback"
  /\ \E i, j \in 1..Len(fnGuess) :
       /\ i < j /\ fnGuess[i] = fnGuess[j]
       /\ fnRes[i] = "y" /\ fnRes[j] = "b"

\* The entropies of the pool's words over cands, in pool order.
PoolEntropies(pool, cands) ==
  [i \in 1..Len(pool) |-> calculate_entropy(pool[i], cands)]

\* Position in the ranking of pool entry i, E being the pool's entropies: one
\* more than the number of entries with a larger entropy, or an equal entropy
\* and an earlier place in the pool.
RankOf(E, i) ==
  1 + Cardinality({ j \in DOMAIN E :
        \/ EntropyGreater(E[j], E[i])
        \/ EntropyEqual(E[j], E[i]) /\ j < i })

\* C7: rank_guesses returns the first min(topN, |pool|) (word, entropy) pairs
\* of the pool in descending entropy, equal entropies in pool order.
C7_RankOrder ==
  fnOp = "rank" =>
    LET E == PoolEntropies(fnPool, fnCands)
    IN  /\ Len(fnRes) = Min(fnTopn, Len(fnPool))
        /\ \A i \in 1..Len(fnPool) :
             LET r == RankOf(E, i)
             IN  r <= Len(fnRes) => fnRes[r] = << fnPool[i], E[i] >>

\* A ranking that is cut by topN, moves a later pool entry to the front and
\* holds two entries of equal entropy.
C7_Witness ==
  /\ fnOp = "rank" /\ Len(fnRes) = fnTopn /\ fnTopn < Len(fnPool) /\ fnTopn >= 2
  /\ fnRes[1][1] # fnPool[1]
  /\ \E k \in 1..(Len(fnRes) - 1) : EntropyEqual(fnRes[k][2], fnRes[k + 1][2])

\* C8: over a non-empty candidate list the entropy is >= 0, and it is 0
\* exactly when all candidates give the same feedback against the guess.
C8_EntropyZeroIff ==
  (fnOp = "entropy" /\ fnCands # <<>>) =>
    /\ EntropyNonNegative(fnRes)
    /\ EntropyIsZero(fnRes)
         <=> Cardinality({ feedback(fnGuess, fnCands[i]) : i \in 1..Len(fnCands) }) = 1

\* Several different candidates that the guess cannot tell apart.
C8_Witness ==
  /\ fnOp = "entropy" /\ Len(fnCands) >= 2 /\ fnCands[1] # fnCands[2]
  /\ EntropyIsZero(fnRes)

====
